---- MODULE Spec2Model ----
(***************************************************************************)
(* Proctored-interview platform.                                           *)
(*                                                                         *)
(*   Spec      one InterviewDashboard component in one browser page        *)
(*             (src/src/components/InterviewDashboard.tsx)                 *)
(*   SpecTabs  several same-origin tabs running the dashboard's multi-tab  *)
(*             effect over the 'interview_session' BroadcastChannel        *)
(*   SpecAuth  the Express auth router (server/auth.js, server/db.js,      *)
(*             kept in src/unnamed/part_000)                               *)
(***************************************************************************)
EXTENDS Integers, Sequences, FiniteSets, TLC

(***************************************************************************)
(* Bounds of the model.                                                    *)
(***************************************************************************)
\* camera/microphone streams that can be un-stopped at the same time
MaxCamStreams == 2
\* screen-capture streams that can be un-stopped at the same time
MaxScreenStreams == 2
\* getUserMedia requests outstanding at the same time
MaxPendingMedia == 2
\* getDisplayMedia requests outstanding at the same time
MaxPendingShare == 2

VARIABLES
    \* ---- InterviewDashboard: React state (useState) ----
    phase, isCameraOn, isMicOn, isScreenSharing, isSecured, violations,
    showWarning, infoMsg, errorHeader, errorMessage,
    \* ---- InterviewDashboard: refs (useRef) ----
    streamRef, screenStreamRef, isScreenSharingRef, isRequestingScreenRef,
    hasRequestedRef,
    \* ---- the closure installed by the keydown effect (deps [phase]) ----
    kdSecured, kdSharing,
    \* ---- browser ----
    camLive,        \* getUserMedia streams whose tracks are not stopped
    scrLive,        \* getDisplayMedia streams whose tracks are not stopped
    videoEnabled,   \* enabled flag of the video track of streamRef.current
    audioEnabled,   \* enabled flag of the audio track of streamRef.current
    fullscreen,     \* document.fullscreenElement is not null
    gumPending,     \* getUserMedia promises not yet settled
    gdmPending,     \* getDisplayMedia promises not yet settled
    timer500,       \* a setTimeout(..., 500) of toggleScreenShare is pending
    timer1000,      \* a setTimeout(..., 1000) of handleFullscreenChange is pending
    reloadCause,    \* "none", or why window.location.reload() was called
    heldAtReload,   \* the streams the refs held when the teardown began
    mounted,        \* the component is mounted: its unmount cleanups have not run
    enterFullscreenCalled   \* the handler that ran last called enterFullscreen

dashVars ==
    <<phase, isCameraOn, isMicOn, isScreenSharing, isSecured, violations,
      showWarning, infoMsg, errorHeader, errorMessage,
      streamRef, screenStreamRef, isScreenSharingRef, isRequestingScreenRef,
      hasRequestedRef, kdSecured, kdSharing, camLive, scrLive, videoEnabled,
      audioEnabled, fullscreen, gumPending, gdmPending, timer500, timer1000,
      reloadCause, heldAtReload, mounted, enterFullscreenCalled>>

VARIABLES
    \* ---- same-origin tabs on the 'interview_session' BroadcastChannel ----
    tabPhase,       \* per tab: "closed", or the phase of its dashboard
    tabHeader,      \* per tab: errorHeader of its dashboard
    tabInbox,       \* per tab: messages queued for its open channel
    \* ---- auth server ----
    users,          \* rows of public.users
    usersIdSeq,     \* next value of the SERIAL sequence of users.id
    requests,       \* per connection: the handler suspended at an await
    lastResponse,   \* the response sent last, with the request it answers
    answered201,    \* per email: signups answered 201 so far
    clientToken,    \* localStorage 'jwt' of the client: the token returned last
    now             \* server clock, hours

tabsVars == <<tabPhase, tabHeader, tabInbox>>

authVars ==
    <<users, usersIdSeq, requests, lastResponse, answered201, clientToken, now>>

vars == <<dashVars, tabsVars, authVars>>

(***************************************************************************)
(* Values.                                                                 *)
(***************************************************************************)
\* a ref that holds no stream (useRef<MediaStream | null>(null))
Null == 0
CamIds == 1..MaxCamStreams
ScrIds == 1..MaxScreenStreams

MsgShareEnded == "Screen sharing has ended. You have entered Fullscreen Mode. Please continue your interview."
MsgDenied == "Camera or microphone access denied. Please allow permissions in your browser bar."
MsgNoGear == "No media gear detected. Ensure your devices are connected."
MsgFullscreenRequired == "Assessments require fullscreen mode for security. Please allow fullscreen and retry."
MsgOtherSession == "Another session is already active in a different tab/window. Please close all other tabs and retry."

\* the smallest identity no un-stopped stream carries
FreshId(ids, live) ==
    CHOOSE i \in ids \ live : \A j \in ids \ live : i <= j

(***************************************************************************)
(* The component's state as one record, so that a handler is a function    *)
(* from state to state and handlers compose the way the code calls them.   *)
(* A handler starts with enterFullscreenCalled cleared.                    *)
(***************************************************************************)
Cur ==
    [phase |-> phase, isCameraOn |-> isCameraOn, isMicOn |-> isMicOn,
     isScreenSharing |-> isScreenSharing, isSecured |-> isSecured,
     violations |-> violations, showWarning |-> showWarning,
     infoMsg |-> infoMsg,
     errorHeader |-> errorHeader, errorMessage |-> errorMessage,
     streamRef |-> streamRef, screenStreamRef |-> screenStreamRef,
     isScreenSharingRef |-> isScreenSharingRef,
     isRequestingScreenRef |-> isRequestingScreenRef,
     hasRequestedRef |-> hasRequestedRef,
     kdSecured |-> kdSecured, kdSharing |-> kdSharing,
     camLive |-> camLive, scrLive |-> scrLive,
     videoEnabled |-> videoEnabled, audioEnabled |-> audioEnabled,
     fullscreen |-> fullscreen, gumPending |-> gumPending,
     gdmPending |-> gdmPending, timer500 |-> timer500,
     timer1000 |-> timer1000, reloadCause |-> reloadCause,
     heldAtReload |-> heldAtReload, mounted |-> mounted,
     enterFullscreenCalled |-> FALSE]

\* The state after the first render and its mount effects: the auto-start
\* effect has called startInterview once, the keydown effect has captured
\* the first render's values.
Mounted ==
    [phase |-> "loading", isCameraOn |-> TRUE, isMicOn |-> TRUE,
     isScreenSharing |-> FALSE, isSecured |-> FALSE,
     violations |-> 0, showWarning |-> FALSE,
     infoMsg |-> "",
     errorHeader |-> "", errorMessage |-> "",
     streamRef |-> Null, screenStreamRef |-> Null,
     isScreenSharingRef |-> FALSE,
     isRequestingScreenRef |-> FALSE,
     hasRequestedRef |-> TRUE,
     kdSecured |-> FALSE, kdSharing |-> FALSE,
     camLive |-> {}, scrLive |-> {},
     videoEnabled |-> TRUE, audioEnabled |-> TRUE,
     fullscreen |-> FALSE, gumPending |-> 1,
     gdmPending |-> 0, timer500 |-> FALSE,
     timer1000 |-> FALSE, reloadCause |-> "none",
     heldAtReload |-> <<Null, Null>>, mounted |-> TRUE,
     enterFullscreenCalled |-> FALSE]

\* The render that follows a handler. The keydown effect has deps [phase]:
\* it re-subscribes, capturing that render's isSecured (directly and inside
\* handleViolation) and isScreenSharing (inside toggleScreenShare), only
\* when phase has changed.
Render(s) ==
    IF s.phase # phase
    THEN [s EXCEPT !.kdSecured = s.isSecured, !.kdSharing = s.isScreenSharing]
    ELSE s

Commit(t) ==
    LET s == Render(t) IN
    /\ phase' = s.phase
    /\ isCameraOn' = s.isCameraOn
    /\ isMicOn' = s.isMicOn
    /\ isScreenSharing' = s.isScreenSharing
    /\ isSecured' = s.isSecured
    /\ violations' = s.violations
    /\ showWarning' = s.showWarning
    /\ infoMsg' = s.infoMsg
    /\ errorHeader' = s.errorHeader
    /\ errorMessage' = s.errorMessage
    /\ streamRef' = s.streamRef
    /\ screenStreamRef' = s.screenStreamRef
    /\ isScreenSharingRef' = s.isScreenSharingRef
    /\ isRequestingScreenRef' = s.isRequestingScreenRef
    /\ hasRequestedRef' = s.hasRequestedRef
    /\ kdSecured' = s.kdSecured
    /\ kdSharing' = s.kdSharing
    /\ camLive' = s.camLive
    /\ scrLive' = s.scrLive
    /\ videoEnabled' = s.videoEnabled
    /\ audioEnabled' = s.audioEnabled
    /\ fullscreen' = s.fullscreen
    /\ gumPending' = s.gumPending
    /\ gdmPending' = s.gdmPending
    /\ timer500' = s.timer500
    /\ timer1000' = s.timer1000
    /\ reloadCause' = s.reloadCause
    /\ heldAtReload' = s.heldAtReload
    /\ mounted' = s.mounted
    /\ enterFullscreenCalled' = s.enterFullscreenCalled
    /\ UNCHANGED <<tabsVars, authVars>>

(***************************************************************************)
(* Media management.                                                       *)
(***************************************************************************)
\* a stopTracks that forgets the screen-share stream
stopTracksCameraOnly(s) ==
    [s EXCEPT !.camLive = IF s.streamRef # Null THEN @ \ {s.streamRef} ELSE @,
              !.streamRef = Null,
              !.videoEnabled = TRUE, !.audioEnabled = TRUE]

stopTracks(s) ==
    [s EXCEPT !.camLive = IF s.streamRef # Null THEN @ \ {s.streamRef} ELSE @,
              !.streamRef = Null,
              !.videoEnabled = TRUE, !.audioEnabled = TRUE,
              !.scrLive = IF s.screenStreamRef # Null
                          THEN @ \ {s.screenStreamRef} ELSE @,
              !.screenStreamRef = Null]

\* window.location.reload(): the document starts unloading; heldAtReload
\* remembers what the refs held when the caller began its teardown
reload(s, cause, held) ==
    [s EXCEPT !.reloadCause = cause, !.heldAtReload = held]

\* a startInterview that asks for the devices without showing the loader
startInterviewSilent(s) ==
    IF s.hasRequestedRef THEN s
    ELSE [s EXCEPT !.hasRequestedRef = TRUE,
                   !.errorMessage = "",
                   !.gumPending = @ + 1]

\* a startInterview that also clears the violation counter
startInterviewResetting(s) ==
    IF s.hasRequestedRef THEN s
    ELSE [s EXCEPT !.hasRequestedRef = TRUE,
                   !.phase = "loading",
                   !.errorMessage = "",
                   !.violations = 0,
                   !.gumPending = @ + 1]

\* startInterview up to its await
startInterview(s) ==
    IF s.hasRequestedRef THEN s
    ELSE [s EXCEPT !.hasRequestedRef = TRUE,
                   !.phase = "loading",
                   !.errorMessage = "",
                   !.gumPending = @ + 1]

\* startInterview after the await resolved with a new stream
mediaResolved(s) ==
    LET id == FreshId(CamIds, s.camLive) IN
    [s EXCEPT !.gumPending = @ - 1,
              !.camLive = @ \cup {id},
              !.streamRef = id,
              !.videoEnabled = TRUE, !.audioEnabled = TRUE,
              !.phase = "live"]

\* startInterview's catch
\* a catch that does not look at err.name
mediaRejectedGeneric(s, name) ==
    [s EXCEPT !.gumPending = @ - 1,
              !.hasRequestedRef = FALSE,
              !.phase = "error",
              !.errorHeader = "Connection Error",
              !.errorMessage = MsgNoGear]

mediaRejected(s, name) ==
    [s EXCEPT !.gumPending = @ - 1,
              !.hasRequestedRef = FALSE,
              !.phase = "error",
              !.errorHeader = "Connection Error",
              !.errorMessage = IF name = "NotAllowedError"
                               THEN MsgDenied ELSE MsgNoGear]

(***************************************************************************)
(* Security: violations.                                                   *)
(***************************************************************************)
ViolationLimit == 3

\* a threshold test that is off by one
shouldTerminateLate(next) == next > ViolationLimit

shouldTerminate(next) == next >= ViolationLimit

\* a violation counted twice
nextViolationsTwice(v) == v + 2

nextViolations(v) == v + 1

\* a handleViolation without its isSecured guard
handleViolationUnguarded(s, secured) ==
    LET next == nextViolations(s.violations)
        held == <<s.streamRef, s.screenStreamRef>>
        counted == [s EXCEPT !.violations = next]
        after == IF shouldTerminate(next)
                 THEN reload(stopTracks(counted), "violation", held)
                 ELSE counted
    IN [after EXCEPT !.showWarning = TRUE]

\* handleViolation as memoized in a render whose isSecured was `secured`.
\* The text it hands to setWarningMsg is only ever displayed and is left out.
handleViolation(s, secured) ==
    IF ~secured THEN s
    ELSE LET next == nextViolations(s.violations)
             held == <<s.streamRef, s.screenStreamRef>>
             counted == [s EXCEPT !.violations = next]
             after == IF shouldTerminate(next)
                      THEN reload(stopTracks(counted), "violation", held)
                      ELSE counted
         IN [after EXCEPT !.showWarning = TRUE]

isExempt(s) == s.isScreenSharingRef \/ s.isRequestingScreenRef

handleBlur(s) ==
    IF ~isExempt(s) THEN handleViolation(s, s.isSecured) ELSE s

handleVisibilityChange(s, visibilityState) ==
    IF visibilityState = "hidden" /\ ~isExempt(s)
    THEN handleViolation(s, s.isSecured)
    ELSE s

\* runs after document.fullscreenElement has changed to `s.fullscreen`
handleFullscreenChange(s) ==
    IF ~s.fullscreen /\ ~isExempt(s)
    THEN handleViolation(s, s.isSecured)
    ELSE IF ~s.fullscreen /\ isExempt(s)
    THEN [s EXCEPT !.timer1000 = TRUE]
    ELSE s

\* an enterFullscreen whose catch still marks the session as secured
enterFullscreenSecuresAnyway(s0, granted) ==
    LET s == [s0 EXCEPT !.enterFullscreenCalled = TRUE] IN
    IF s.fullscreen
    THEN [s EXCEPT !.isSecured = TRUE, !.showWarning = FALSE]
    ELSE IF granted
    THEN LET entered == [s EXCEPT !.fullscreen = TRUE]
             heard == IF s.isSecured THEN handleFullscreenChange(entered)
                      ELSE entered
         IN [heard EXCEPT !.isSecured = TRUE, !.showWarning = FALSE]
    ELSE [s EXCEPT !.phase = "error",
                   !.errorHeader = "Fullscreen Required",
                   !.errorMessage = MsgFullscreenRequired,
                   !.isSecured = TRUE, !.showWarning = FALSE]

\* enterFullscreen; `granted` is how requestFullscreen settles when the
\* document is not in fullscreen. The request settles, and the
\* fullscreenchange it causes is dispatched to the listener of the render
\* that made the call, before any other event is handled.
enterFullscreen(s0, granted) ==
    LET s == [s0 EXCEPT !.enterFullscreenCalled = TRUE] IN
    IF s.fullscreen
    THEN [s EXCEPT !.isSecured = TRUE, !.showWarning = FALSE]
    ELSE IF granted
    THEN LET entered == [s EXCEPT !.fullscreen = TRUE]
             heard == IF s.isSecured THEN handleFullscreenChange(entered)
                      ELSE entered
         IN [heard EXCEPT !.isSecured = TRUE, !.showWarning = FALSE]
    ELSE [s EXCEPT !.phase = "error",
                   !.errorHeader = "Fullscreen Required",
                   !.errorMessage = MsgFullscreenRequired]

\* a callback that never asks for fullscreen again
reentryTimerIdle(s, granted) == [s EXCEPT !.timer1000 = FALSE]

\* the callback of handleFullscreenChange's setTimeout; callbacks of one
\* kind that are pending together are taken as one
reentryTimer(s, granted) ==
    LET t == [s EXCEPT !.timer1000 = FALSE] IN
    IF ~t.fullscreen /\ isExempt(t) THEN enterFullscreen(t, granted) ELSE t

preventGestures(s, touches) ==
    IF touches > 1 THEN handleViolation(s, s.isSecured) ELSE s

(***************************************************************************)
(* Controls.                                                               *)
(***************************************************************************)
\* a camera switch that also flips the microphone track
toggleCameraBoth(s) ==
    IF s.streamRef # Null
    THEN [s EXCEPT !.videoEnabled = ~@, !.audioEnabled = ~@,
                   !.isCameraOn = ~s.videoEnabled]
    ELSE s

toggleCamera(s) ==
    IF s.streamRef # Null
    THEN [s EXCEPT !.videoEnabled = ~@, !.isCameraOn = ~s.videoEnabled]
    ELSE s

toggleMic(s) ==
    IF s.streamRef # Null
    THEN [s EXCEPT !.audioEnabled = ~@, !.isMicOn = ~s.audioEnabled]
    ELSE s

handleScreenShareEnd(s, granted) ==
    LET ended == [s EXCEPT !.scrLive = IF s.screenStreamRef # Null
                                       THEN @ \ {s.screenStreamRef} ELSE @,
                           !.screenStreamRef = Null,
                           !.isScreenSharingRef = FALSE,
                           !.isScreenSharing = FALSE,
                           !.infoMsg = MsgShareEnded]
    IN enterFullscreen(ended, granted)

\* toggleScreenShare as memoized in a render whose isScreenSharing was
\* `sharing`, up to its await
toggleScreenShare(s, sharing, granted) ==
    IF sharing THEN handleScreenShareEnd(s, granted)
    ELSE [s EXCEPT !.isRequestingScreenRef = TRUE, !.gdmPending = @ + 1]

\* toggleScreenShare after getDisplayMedia resolved with a new stream
shareResolved(s) ==
    LET id == FreshId(ScrIds, s.scrLive) IN
    [s EXCEPT !.gdmPending = @ - 1,
              !.scrLive = @ \cup {id},
              !.screenStreamRef = id,
              !.isScreenSharingRef = TRUE,
              !.isScreenSharing = TRUE,
              !.infoMsg = "",
              !.timer500 = TRUE,
              !.isRequestingScreenRef = FALSE]

\* toggleScreenShare's catch and finally
shareRejected(s) ==
    [s EXCEPT !.gdmPending = @ - 1, !.isRequestingScreenRef = FALSE]

handleEndInterview(s, confirmed) ==
    IF confirmed
    THEN reload(stopTracks(s), "endInterview",
                <<s.streamRef, s.screenStreamRef>>)
    ELSE s

Keys == {"m", "c", "s", "escape", "u", "i", "j", "f12", "a"}

\* the 'Block sensitive hotkeys' test; isCtrl is ctrlKey || metaKey
isBlockedHotkey(key, isCtrl, shiftKey) ==
    \/ isCtrl /\ key \in {"u", "s", "i", "j"}
    \/ isCtrl /\ shiftKey /\ key \in {"i", "j", "c"}
    \/ key = "f12"

\* handleKeyDown: isSecured, toggleScreenShare and handleViolation are the
\* ones of the render in which the keydown effect last ran
handleKeyDown(s, key, isCtrl, shiftKey, granted, confirmed) ==
    IF s.phase # "live" THEN s
    ELSE LET switched ==
                 IF ~s.kdSecured THEN s
                 ELSE IF key = "m" THEN toggleMic(s)
                 ELSE IF key = "c" THEN toggleCamera(s)
                 ELSE IF key = "s" THEN toggleScreenShare(s, s.kdSharing, granted)
                 ELSE IF key = "escape" THEN handleEndInterview(s, confirmed)
                 ELSE s
         IN IF isBlockedHotkey(key, isCtrl, shiftKey)
            THEN handleViolation(switched, s.kdSecured)
            ELSE switched

\* channel.onmessage for 'session_exists'
onSessionExists(s) ==
    IF s.phase = "live"
    THEN [s EXCEPT !.phase = "error",
                   !.errorHeader = "Security Violation",
                   !.errorMessage = MsgOtherSession]
    ELSE s

\* which branch of SecurityOverlay renders
SecurityOverlay ==
    IF ~isSecured /\ phase = "live" THEN "start"
    ELSE IF showWarning /\ isSecured THEN "warning"
    ELSE IF infoMsg # "" /\ isSecured THEN "info"
    ELSE "none"

(***************************************************************************)
(* One dashboard in one page: the steps.                                   *)
(***************************************************************************)
Loaded == reloadCause = "none" /\ mounted

GetUserMediaResolves ==
    /\ Loaded
    /\ gumPending > 0
    /\ CamIds \ camLive # {}
    /\ Commit(mediaResolved(Cur))

\* err.name of a rejected getUserMedia
ExceptionNames == {"NotAllowedError", "NotFoundError", "NotReadableError"}

GetUserMediaRejectsWith(name) ==
    /\ Loaded
    /\ gumPending > 0
    /\ Commit(mediaRejected(Cur, name))

GetUserMediaRejects ==
    \E name \in ExceptionNames : GetUserMediaRejectsWith(name)

\* 'Go Back & Retry' onClick
ClickRetry ==
    /\ Loaded
    /\ phase = "error"
    /\ gumPending < MaxPendingMedia
    /\ Commit(startInterview([Cur EXCEPT !.hasRequestedRef = FALSE]))

\* another tab answered on the BroadcastChannel
SessionExistsMessage ==
    /\ Loaded
    /\ Commit(onSessionExists(Cur))

\* the listeners of the security effects exist only while isSecured
WindowBlur ==
    /\ Loaded
    /\ Commit(IF isSecured THEN handleBlur(Cur) ELSE Cur)

VisibilityChangeTo(visibilityState) ==
    /\ Loaded
    /\ Commit(IF isSecured
              THEN handleVisibilityChange(Cur, visibilityState)
              ELSE Cur)

VisibilityChange ==
    \E visibilityState \in {"hidden", "visible"} :
        VisibilityChangeTo(visibilityState)

\* the user or the browser leaves fullscreen; fullscreenchange follows
FullscreenExit ==
    /\ Loaded
    /\ fullscreen
    /\ LET s == [Cur EXCEPT !.fullscreen = FALSE] IN
       Commit(IF isSecured THEN handleFullscreenChange(s) ELSE s)

TouchStartWith(touches) ==
    /\ Loaded
    /\ Commit(IF isSecured THEN preventGestures(Cur, touches) ELSE Cur)

TouchStart ==
    \E touches \in 1..2 : TouchStartWith(touches)

\* one keydown event reaches the window listener
KeyPress(key, isCtrl, shiftKey) ==
    /\ Loaded
    /\ \E granted \in (IF key = "s" THEN BOOLEAN ELSE {TRUE}),
          confirmed \in (IF key = "escape" THEN BOOLEAN ELSE {TRUE}) :
           /\ (key = "s" /\ kdSecured /\ ~kdSharing /\ phase = "live")
                  => gdmPending < MaxPendingShare
           /\ Commit(handleKeyDown(Cur, key, isCtrl, shiftKey, granted, confirmed))

KeyDownOf(keys) ==
    \E key \in keys, isCtrl \in BOOLEAN, shiftKey \in BOOLEAN :
        KeyPress(key, isCtrl, shiftKey)

\* keys other than the camera and microphone shortcuts
KeyDown == KeyDownOf(Keys \ {"m", "c"})

\* the camera and microphone shortcuts
MediaKeyDown == KeyDownOf({"m", "c"})

\* 'Agree & Enter Fullscreen'
ClickAgree ==
    /\ Loaded
    /\ SecurityOverlay = "start"
    /\ \E granted \in BOOLEAN : Commit(enterFullscreen(Cur, granted))

\* 'Refocus & Re-enter Fullscreen'
ClickRefocus ==
    /\ Loaded
    /\ SecurityOverlay = "warning"
    /\ \E granted \in BOOLEAN : Commit(enterFullscreen(Cur, granted))

\* 'Continue Interview'
ClickContinue ==
    /\ Loaded
    /\ SecurityOverlay = "info"
    /\ \E granted \in BOOLEAN :
           Commit(enterFullscreen([Cur EXCEPT !.infoMsg = ""], granted))

\* the control bar is rendered while phase is 'live'
ClickCamera ==
    /\ Loaded
    /\ phase = "live"
    /\ Commit(toggleCamera(Cur))

ClickMic ==
    /\ Loaded
    /\ phase = "live"
    /\ Commit(toggleMic(Cur))

ClickShare ==
    /\ Loaded
    /\ phase = "live"
    /\ ~isScreenSharing => gdmPending < MaxPendingShare
    /\ \E granted \in BOOLEAN :
           Commit(toggleScreenShare(Cur, isScreenSharing, granted))

ClickEnd ==
    /\ Loaded
    /\ phase = "live"
    /\ \E confirmed \in BOOLEAN : Commit(handleEndInterview(Cur, confirmed))

GetDisplayMediaResolves ==
    /\ Loaded
    /\ gdmPending > 0
    /\ ScrIds \ scrLive # {}
    /\ Commit(shareResolved(Cur))

GetDisplayMediaRejects ==
    /\ Loaded
    /\ gdmPending > 0
    /\ Commit(shareRejected(Cur))

\* the browser's 'Stop sharing': the track ends, its onended runs
ScreenTrackEnded ==
    /\ Loaded
    /\ \E id \in scrLive, granted \in BOOLEAN :
           Commit(handleScreenShareEnd([Cur EXCEPT !.scrLive = @ \ {id}],
                                       granted))

ShareTimerFires ==
    /\ Loaded
    /\ timer500
    /\ \E granted \in BOOLEAN :
           Commit(enterFullscreen([Cur EXCEPT !.timer500 = FALSE], granted))

ReentryTimerFires ==
    /\ Loaded
    /\ timer1000
    /\ \E granted \in BOOLEAN : Commit(reentryTimer(Cur, granted))

\* the reload completes: a new document mounts the component again
PageLoad ==
    /\ reloadCause # "none"
    /\ Commit(Mounted)

(***************************************************************************)
(* Unmount: the cleanups run, the component's setters become no-ops, and   *)
(* what was started before (promises, timers, track callbacks) still runs  *)
(* its continuation on the refs.                                           *)
(***************************************************************************)
\* the cleanup of the effect at lines 69-71
unmount(s) == [stopTracks(s) EXCEPT !.mounted = FALSE]

\* the outcome t of a continuation that ran from s on the unmounted
\* component: state setters are ignored, writes to refs and to the browser
\* are kept
Detached(s, t) ==
    [t EXCEPT !.phase = s.phase, !.isCameraOn = s.isCameraOn,
              !.isMicOn = s.isMicOn, !.isScreenSharing = s.isScreenSharing,
              !.isSecured = s.isSecured, !.violations = s.violations,
              !.showWarning = s.showWarning, !.infoMsg = s.infoMsg,
              !.errorHeader = s.errorHeader,
              !.errorMessage = s.errorMessage]

Unmounted == reloadCause = "none" /\ ~mounted

Unmount ==
    /\ Loaded
    /\ Commit(unmount(Cur))

UnmountedMediaResolves ==
    /\ Unmounted
    /\ gumPending > 0
    /\ CamIds \ camLive # {}
    /\ Commit(Detached(Cur, mediaResolved(Cur)))

UnmountedMediaRejects ==
    /\ Unmounted
    /\ gumPending > 0
    /\ \E name \in ExceptionNames :
           Commit(Detached(Cur, mediaRejected(Cur, name)))

UnmountedShareResolves ==
    /\ Unmounted
    /\ gdmPending > 0
    /\ ScrIds \ scrLive # {}
    /\ Commit(Detached(Cur, shareResolved(Cur)))

UnmountedShareRejects ==
    /\ Unmounted
    /\ gdmPending > 0
    /\ Commit(Detached(Cur, shareRejected(Cur)))

UnmountedShareTimerFires ==
    /\ Unmounted
    /\ timer500
    /\ \E granted \in BOOLEAN :
           Commit(Detached(Cur, enterFullscreen([Cur EXCEPT !.timer500 = FALSE],
                                                granted)))

UnmountedReentryTimerFires ==
    /\ Unmounted
    /\ timer1000
    /\ \E granted \in BOOLEAN :
           Commit(Detached(Cur, reentryTimer(Cur, granted)))

UnmountedScreenTrackEnded ==
    /\ Unmounted
    /\ \E id \in scrLive, granted \in BOOLEAN :
           Commit(Detached(Cur,
                           handleScreenShareEnd([Cur EXCEPT !.scrLive = @ \ {id}],
                                                granted)))

\* the page as the browser hands it over
DashInit ==
    /\ phase = Mounted.phase
    /\ isCameraOn = Mounted.isCameraOn
    /\ isMicOn = Mounted.isMicOn
    /\ isScreenSharing = Mounted.isScreenSharing
    /\ isSecured = Mounted.isSecured
    /\ violations = Mounted.violations
    /\ showWarning = Mounted.showWarning
    /\ infoMsg = Mounted.infoMsg
    /\ errorHeader = Mounted.errorHeader
    /\ errorMessage = Mounted.errorMessage
    /\ streamRef = Mounted.streamRef
    /\ screenStreamRef = Mounted.screenStreamRef
    /\ isScreenSharingRef = Mounted.isScreenSharingRef
    /\ isRequestingScreenRef = Mounted.isRequestingScreenRef
    /\ hasRequestedRef = Mounted.hasRequestedRef
    /\ kdSecured = Mounted.kdSecured
    /\ kdSharing = Mounted.kdSharing
    /\ camLive = Mounted.camLive
    /\ scrLive = Mounted.scrLive
    /\ videoEnabled = Mounted.videoEnabled
    /\ audioEnabled = Mounted.audioEnabled
    /\ fullscreen = Mounted.fullscreen
    /\ gumPending = Mounted.gumPending
    /\ gdmPending = Mounted.gdmPending
    /\ timer500 = Mounted.timer500
    /\ timer1000 = Mounted.timer1000
    /\ reloadCause = Mounted.reloadCause
    /\ heldAtReload = Mounted.heldAtReload
    /\ mounted = Mounted.mounted
    /\ enterFullscreenCalled = Mounted.enterFullscreenCalled

TabsIdle ==
    /\ tabPhase = <<>>
    /\ tabHeader = <<>>
    /\ tabInbox = <<>>

AuthIdle ==
    /\ users = {}
    /\ usersIdSeq = 1
    /\ requests = <<>>
    /\ lastResponse = <<>>
    /\ answered201 = <<>>
    /\ clientToken = <<>>
    /\ now = 0

Init ==
    /\ DashInit
    /\ TabsIdle
    /\ AuthIdle

Next ==
    \/ GetUserMediaResolves
    \/ GetUserMediaRejects
    \/ ClickRetry
    \/ SessionExistsMessage
    \/ WindowBlur
    \/ VisibilityChange
    \/ FullscreenExit
    \/ TouchStart
    \/ KeyDown
    \/ ClickAgree
    \/ ClickRefocus
    \/ ClickContinue
    \/ ClickShare
    \/ ClickEnd
    \/ GetDisplayMediaResolves
    \/ GetDisplayMediaRejects
    \/ ScreenTrackEnded
    \/ ShareTimerFires
    \/ ReentryTimerFires
    \/ PageLoad

\* One dashboard page under every event except the camera and microphone
\* toggles (ClickCamera, ClickMic, MediaKeyDown): these write only
\* isCameraOn, isMicOn and the two enabled flags, which nothing else reads.
Spec == Init /\ [][Next]_vars

NextUnmount ==
    \/ GetUserMediaResolves
    \/ GetUserMediaRejects
    \/ ClickRetry
    \/ ClickAgree
    \/ ClickShare
    \/ GetDisplayMediaResolves
    \/ GetDisplayMediaRejects
    \/ ScreenTrackEnded
    \/ FullscreenExit
    \/ ShareTimerFires
    \/ ReentryTimerFires
    \/ ClickEnd
    \/ PageLoad
    \/ Unmount
    \/ UnmountedMediaResolves
    \/ UnmountedMediaRejects
    \/ UnmountedShareResolves
    \/ UnmountedShareRejects
    \/ UnmountedShareTimerFires
    \/ UnmountedReentryTimerFires
    \/ UnmountedScreenTrackEnded

\* The events of a session around screen sharing and fullscreen.
NextShare ==
    \/ GetUserMediaResolves
    \/ ClickAgree
    \/ ClickShare
    \/ GetDisplayMediaResolves
    \/ GetDisplayMediaRejects
    \/ ScreenTrackEnded
    \/ FullscreenExit
    \/ ShareTimerFires
    \/ ReentryTimerFires
    \/ ClickRefocus
    \/ ClickContinue
    \/ ClickEnd
    \/ PageLoad

\* One dashboard page under these events, whose timers fire and whose
\* reload completes: a pending setTimeout callback runs, the browser
\* finishes a reload it began.
SpecShare ==
    /\ Init
    /\ [][NextShare]_vars
    /\ WF_vars(ShareTimerFires)
    /\ WF_vars(ReentryTimerFires)
    /\ WF_vars(PageLoad)

\* One dashboard page that may be unmounted at any moment.
SpecUnmount == Init /\ [][NextUnmount]_vars

\* One dashboard page under the camera and microphone toggles, with the
\* session events around them and without screen sharing.
NextMedia ==
    \/ GetUserMediaResolves
    \/ GetUserMediaRejects
    \/ ClickRetry
    \/ SessionExistsMessage
    \/ WindowBlur
    \/ FullscreenExit
    \/ ClickAgree
    \/ ClickRefocus
    \/ ClickCamera
    \/ ClickMic
    \/ MediaKeyDown
    \/ ClickEnd
    \/ PageLoad

SpecMedia == Init /\ [][NextMedia]_vars

(***************************************************************************)
(* Claims about one dashboard page.                                        *)
(***************************************************************************)

\* C1: in a secured session the violation-triggered teardown fires exactly
\* on the recorded violation that makes the counter 3: a step records a
\* violation by adding exactly 1, the counter stays within 1..3, and the
\* reload for cause "violation" is issued in a step if and only if that step
\* records the violation that makes the counter 3.
C1_TeardownExactlyAtThree ==
    [][LET recorded == Loaded /\ violations' # violations
           fired == Loaded /\ reloadCause' = "violation"
       IN /\ recorded => /\ isSecured
                         /\ violations' = violations + 1
                         /\ violations' \in 1..3
          /\ fired <=> (recorded /\ violations' = 3)]_vars

C1_Witness ==
    /\ reloadCause = "violation"
    /\ isSecured
    /\ violations = 3

\* a secured page on which no screen share is active or being requested
NoScreenShare ==
    /\ Loaded
    /\ isSecured
    /\ ~isScreenSharingRef
    /\ ~isRequestingScreenRef

\* C2: in a secured session with no screen share active or requested, each
\* window blur, visibilitychange to 'hidden', fullscreen exit and touchstart
\* with more than one touch adds exactly 1 to the violation counter; a
\* visibilitychange to 'visible' leaves the counter unchanged, and so does
\* the fullscreenchange handler when the document has entered fullscreen.
C2_EventsCountOnce ==
    [][/\ (NoScreenShare /\ WindowBlur) => violations' = violations + 1
       /\ (NoScreenShare /\ VisibilityChangeTo("hidden"))
              => violations' = violations + 1
       /\ (NoScreenShare /\ FullscreenExit) => violations' = violations + 1
       /\ (NoScreenShare /\ TouchStartWith(2))
              => violations' = violations + 1
       /\ (Loaded /\ isSecured /\ VisibilityChangeTo("visible"))
              => violations' = violations
       /\ (Loaded /\ isSecured)
              => handleFullscreenChange([Cur EXCEPT !.fullscreen = TRUE])
                     = [Cur EXCEPT !.fullscreen = TRUE]]_vars

C2_Witness ==
    /\ NoScreenShare
    /\ phase = "live"
    /\ ~fullscreen
    /\ showWarning
    /\ violations = 2

\* C3: whenever the page reloads because the threshold was reached or the
\* user confirmed 'end interview', both stream refs are null and the streams
\* they held when the teardown began are stopped.
C3_StreamsStoppedBeforeReload ==
    reloadCause # "none" =>
        /\ streamRef = Null
        /\ screenStreamRef = Null
        /\ heldAtReload[1] \notin camLive
        /\ heldAtReload[2] \notin scrLive

C3_Witness ==
    /\ reloadCause = "violation"
    /\ heldAtReload[1] # Null
    /\ heldAtReload[2] # Null

\* C5: media stream management is a singleton: every getUserMedia stream
\* whose tracks have not been stopped is the one streamRef references.
C5_SingletonStream ==
    \A id \in camLive : streamRef = id

\* C6: fullscreen is enforced throughout a secured session: while phase is
\* 'live', isSecured holds and no screen share is active or being requested,
\* the document is in fullscreen or the warning or info overlay is shown.
C6_FullscreenEnforced ==
    (/\ NoScreenShare
     /\ phase = "live"
     /\ gdmPending = 0
     /\ scrLive = {})
        => (fullscreen \/ SecurityOverlay \in {"warning", "info"})

(***************************************************************************)
(* Multi-tab prevention: same-origin tabs, each running the dashboard's    *)
(* BroadcastChannel effect. The effect has deps [phase]: on mount and on   *)
(* every change of phase it closes the tab's channel, opens a new one and  *)
(* posts 'new_tab_attempt'. A tab's dashboard is reduced to its phase and  *)
(* its error header.                                                       *)
(***************************************************************************)
\* tabs of the origin
NumTabs == 3
\* messages queued for one channel
MaxInbox == 1

Tabs == 1..NumTabs

\* the tabs whose channel is open, other than `from`
Listeners(phases, from) ==
    {t \in Tabs : t # from /\ phases[t] # "closed"}

\* A queued message: `data` is what the code posts; from, phase (of the
\* sender when it posted) and replyTo (whose 'new_tab_attempt' a
\* 'session_exists' answers, 0 for none) are kept for the record and never
\* read by a tab.
Message(data, from, senderPhase, replyTo) ==
    [data |-> data, from |-> from, phase |-> senderPhase, replyTo |-> replyTo]

\* channel.postMessage(data): one task per other open channel
postMessage(inbox, phases, from, data, replyTo) ==
    [t \in Tabs |-> IF t \in Listeners(phases, from)
                    THEN Append(inbox[t],
                                Message(data, from, phases[from], replyTo))
                    ELSE inbox[t]]

\* a tab changes phase on its own only while fewer than MaxInbox messages
\* wait in every other open tab; dispatching a message is never held back
CanPost(from) ==
    \A t \in Tabs \ {from} : Len(tabInbox[t]) < MaxInbox

\* the effect after tab t rendered phase p: cleanup closes the old channel,
\* so what was queued for it is never dispatched; the new channel announces
\* the tab
channelEffect(t, p, header) ==
    LET phases == [tabPhase EXCEPT ![t] = p] IN
    /\ tabPhase' = phases
    /\ tabHeader' = [tabHeader EXCEPT ![t] = header]
    /\ tabInbox' = postMessage([tabInbox EXCEPT ![t] = <<>>], phases, t,
                               "new_tab_attempt", 0)
    /\ UNCHANGED <<dashVars, authVars>>

\* a handler that lets announcements pass unanswered
onmessageNoReply(t, msg) ==
    IF msg.data = "session_exists" /\ tabPhase[t] = "live"
    THEN channelEffect(t, "error", "Security Violation")
    ELSE /\ UNCHANGED <<tabPhase, tabHeader>>
         /\ tabInbox' = [tabInbox EXCEPT ![t] = Tail(@)]
         /\ UNCHANGED <<dashVars, authVars>>

\* channel.onmessage of tab t, whose closure holds the tab's current phase
onmessage(t, msg) ==
    IF msg.data = "new_tab_attempt"
    THEN /\ UNCHANGED <<tabPhase, tabHeader>>
         /\ tabInbox' = postMessage([tabInbox EXCEPT ![t] = Tail(@)],
                                    tabPhase, t, "session_exists", msg.from)
         /\ UNCHANGED <<dashVars, authVars>>
    ELSE IF msg.data = "session_exists" /\ tabPhase[t] = "live"
    THEN channelEffect(t, "error", "Security Violation")
    ELSE /\ UNCHANGED <<tabPhase, tabHeader>>
         /\ tabInbox' = [tabInbox EXCEPT ![t] = Tail(@)]
         /\ UNCHANGED <<dashVars, authVars>>

\* the user opens the dashboard in tab t: mount, phase 'loading'
TabOpensAt(t) ==
    /\ tabPhase[t] = "closed"
    /\ CanPost(t)
    /\ channelEffect(t, "loading", "")

TabOpens == \E t \in Tabs : TabOpensAt(t)

\* getUserMedia resolves in tab t
TabMediaResolvesAt(t) ==
    /\ tabPhase[t] = "loading"
    /\ CanPost(t)
    /\ channelEffect(t, "live", tabHeader[t])

TabMediaResolves == \E t \in Tabs : TabMediaResolvesAt(t)

\* getUserMedia rejects in tab t
TabMediaRejectsAt(t) ==
    /\ tabPhase[t] = "loading"
    /\ CanPost(t)
    /\ channelEffect(t, "error", "Connection Error")

TabMediaRejects == \E t \in Tabs : TabMediaRejectsAt(t)

\* 'Go Back & Retry' in tab t
TabRetriesAt(t) ==
    /\ tabPhase[t] = "error"
    /\ CanPost(t)
    /\ channelEffect(t, "loading", tabHeader[t])

TabRetries == \E t \in Tabs : TabRetriesAt(t)

\* requestFullscreen rejects in tab t
TabFullscreenFailsAt(t) ==
    /\ tabPhase[t] = "live"
    /\ CanPost(t)
    /\ channelEffect(t, "error", "Fullscreen Required")

TabFullscreenFails == \E t \in Tabs : TabFullscreenFailsAt(t)

\* the browser dispatches the next message queued for tab t
TabReceivesAt(t) ==
    /\ tabPhase[t] # "closed"
    /\ tabInbox[t] # <<>>
    /\ onmessage(t, Head(tabInbox[t]))

TabReceives == \E t \in Tabs : TabReceivesAt(t)

\* tab t is closed or reloads: the document and its channel are gone
TabClosesAt(t) ==
    /\ tabPhase[t] # "closed"
    /\ tabPhase' = [tabPhase EXCEPT ![t] = "closed"]
    /\ tabHeader' = [tabHeader EXCEPT ![t] = ""]
    /\ tabInbox' = [tabInbox EXCEPT ![t] = <<>>]
    /\ UNCHANGED <<dashVars, authVars>>

TabCloses == \E t \in Tabs : TabClosesAt(t)

TabsInit ==
    /\ tabPhase = [t \in Tabs |-> "closed"]
    /\ tabHeader = [t \in Tabs |-> ""]
    /\ tabInbox = [t \in Tabs |-> <<>>]

InitTabs ==
    /\ DashInit
    /\ TabsInit
    /\ AuthIdle

NextTabs ==
    \/ TabOpens
    \/ TabMediaResolves
    \/ TabMediaRejects
    \/ TabRetries
    \/ TabFullscreenFails
    \/ TabReceives
    \/ TabCloses

SpecTabs == InitTabs /\ [][NextTabs]_vars

\* The tabs while none of them is closed and no fullscreen request fails:
\* a tab leaves phase 'live' only through a 'session_exists' message.
NextTabsLive ==
    \/ TabOpens
    \/ TabMediaResolves
    \/ TabMediaRejects
    \/ TabRetries
    \/ TabReceives

\* The browser dispatches every message task it has queued for an open
\* channel.
SpecTabsLive ==
    /\ InitTabs
    /\ [][NextTabsLive]_vars
    /\ \A t \in Tabs : WF_vars(TabReceivesAt(t))

\* C4: multi-tab prevention ensures only one active session exists: among
\* the tabs exchanging 'new_tab_attempt' / 'session_exists', at most one is
\* in phase 'live'.
C4_AtMostOneLive ==
    Cardinality({t \in Tabs : tabPhase[t] = "live"}) <= 1

(***************************************************************************)
(* Auth server: POST /signup, POST /login, GET /me over public.users.      *)
(***************************************************************************)
\* connections whose handler can be suspended at an await at the same time
MaxConns == 2
\* values the SERIAL sequence of users.id hands out
MaxUserId == 3
\* the server clock stops here (hours)
MaxClock == 24
\* hours the clock advances in one step
ClockStep == 24

\* expiresIn: '24h'
ExpiresInHours == 24
\* process.env.JWT_SECRET || 'secret'
JWT_SECRET == "secret"

Conns == 1..MaxConns

\* JSON values of a request body
Str(x) == [t |-> "string", v |-> x]
Num(x) == [t |-> "number", v |-> x]
Undefined == [t |-> "undefined", v |-> ""]

\* a test that only notices absent fields
TruthyUnlessAbsent(x) == x.t # "undefined"

\* JavaScript's !x negated
Truthy(x) ==
    \/ x.t = "string" /\ x.v # ""
    \/ x.t = "number" /\ x.v # "0"

Emails == {"a@x.io", "b@x.io"}

SignupBodies ==
    [username : {Str("ann"), Undefined},
     email : {Str(e) : e \in Emails} \cup {Str("")},
     password : {Str("pw1"), Num("12345"), Undefined},
     full_name : {Str("Ann Lee"), Str("")}]

LoginBodies ==
    [email : {Str(e) : e \in Emails} \cup {Undefined},
     password : {Str("pw1"), Str("pw2"), Num("12345"), Str("")}]

Salts == {"saltA"}

\* bcrypt.hash of a string: the salt is kept in the hash
bcryptHash(s, salt) == <<"$2a$10$", salt, s>>

\* bcrypt.compare of a string with a hash: hashes s with the hash's salt
bcryptCompare(s, hash) == bcryptHash(s, hash[2]) = hash

\* bcryptjs rejects with this when the password is not a string
IllegalArguments(x) == "Illegal arguments: " \o x.t \o ", string"

\* HMAC over header and payload
Hmac(secret, id, email, iat, exp) == <<"HS256", secret, id, email, iat, exp>>

NoToken == [kind |-> "none"]
Garbage == [kind |-> "garbage"]

\* a signer that puts the first user's id into every payload
jwtSignFirstId(id, email, secret, at) ==
    [kind |-> "jwt", id |-> 1, email |-> email, iat |-> at,
     exp |-> at + ExpiresInHours,
     sig |-> Hmac(secret, 1, email, at, at + ExpiresInHours)]

\* jwt.sign({ id, email }, secret, { expiresIn: '24h' }) at time `at`
jwtSign(id, email, secret, at) ==
    [kind |-> "jwt", id |-> id, email |-> email, iat |-> at,
     exp |-> at + ExpiresInHours,
     sig |-> Hmac(secret, id, email, at, at + ExpiresInHours)]

\* a verification that does not look at exp
jwtVerifyIgnoringExpiry(token, secret, at) ==
    /\ token.kind = "jwt"
    /\ token.sig = Hmac(secret, token.id, token.email, token.iat, token.exp)

\* jwt.verify(token, secret) at time `at`: no error
jwtVerify(token, secret, at) ==
    /\ token.kind = "jwt"
    /\ token.sig = Hmac(secret, token.id, token.email, token.iat, token.exp)
    /\ at < token.exp

NoUser == [id |-> 0]

\* RETURNING id, username, email, full_name / the user object of a response
PublicUser(row) ==
    [id |-> row.id, username |-> row.username, email |-> row.email,
     full_name |-> row.full_name]

\* a users table without the UNIQUE constraint on email
violatesUniqueNever(rows, email) == FALSE

\* email VARCHAR UNIQUE NOT NULL
violatesUnique(rows, email) == \E r \in rows : r.email = email

Idle == [pc |-> "idle"]

Response(route, req, status, message, token, user, queried, inserted) ==
    [route |-> route, req |-> req, status |-> status, message |-> message,
     token |-> token, user |-> user, queried |-> queried,
     inserted |-> inserted, at |-> now]

\* res.status(...).json(...): the handler of connection c ends
Respond(c, r) ==
    /\ requests' = [requests EXCEPT ![c] = Idle]
    /\ lastResponse' = r
    /\ clientToken' = IF r.token # NoToken THEN r.token ELSE clientToken

\* POST /signup arrives on connection c
SignupArrives ==
    \E c \in Conns, body \in SignupBodies :
        /\ requests[c] = Idle
        /\ IF ~Truthy(body.username) \/ ~Truthy(body.email)
              \/ ~Truthy(body.password) \/ ~Truthy(body.full_name)
           THEN /\ Respond(c, Response("signup", body, 400,
                                       "All fields are required.",
                                       NoToken, NoUser, FALSE, FALSE))
           ELSE /\ requests' = [requests EXCEPT
                                    ![c] = [pc |-> "select", body |-> body]]
                /\ UNCHANGED <<lastResponse, clientToken>>
        /\ UNCHANGED <<users, usersIdSeq, answered201, now, dashVars, tabsVars>>

\* SELECT * FROM users WHERE email = $1 has answered
SignupSelects ==
    \E c \in Conns :
        /\ requests[c].pc = "select"
        /\ LET body == requests[c].body IN
           IF \E r \in users : r.email = body.email.v
           THEN Respond(c, Response("signup", body, 400,
                                    "Email already registered.",
                                    NoToken, NoUser, TRUE, FALSE))
           ELSE /\ requests' = [requests EXCEPT ![c].pc = "hash"]
                /\ UNCHANGED <<lastResponse, clientToken>>
        /\ UNCHANGED <<users, usersIdSeq, answered201, now, dashVars, tabsVars>>

\* bcrypt.genSalt and bcrypt.hash have settled
SignupHashes ==
    \E c \in Conns, salt \in Salts :
        /\ requests[c].pc = "hash"
        /\ LET body == requests[c].body IN
           IF body.password.t # "string"
           THEN Respond(c, Response("signup", body, 500,
                                    "Server error during signup: "
                                        \o IllegalArguments(body.password),
                                    NoToken, NoUser, TRUE, FALSE))
           ELSE /\ requests' = [requests EXCEPT
                                    ![c] = [pc |-> "insert", body |-> body,
                                            passwordHash |->
                                                bcryptHash(body.password.v, salt)]]
                /\ UNCHANGED <<lastResponse, clientToken>>
        /\ UNCHANGED <<users, usersIdSeq, answered201, now, dashVars, tabsVars>>

\* INSERT INTO users ... RETURNING has answered; the sequence hands out its
\* value before the UNIQUE index is checked
SignupInserts ==
    \E c \in Conns :
        /\ requests[c].pc = "insert"
        /\ usersIdSeq <= MaxUserId
        /\ usersIdSeq' = usersIdSeq + 1
        /\ LET body == requests[c].body
               row == [id |-> usersIdSeq, username |-> body.username.v,
                       email |-> body.email.v,
                       password_hash |-> requests[c].passwordHash,
                       full_name |-> body.full_name.v]
           IN IF violatesUnique(users, row.email)
              THEN /\ Respond(c, Response("signup", body, 500,
                          "Server error during signup: duplicate key value violates unique constraint",
                          NoToken, NoUser, TRUE, FALSE))
                   /\ UNCHANGED <<users, answered201>>
              ELSE /\ users' = users \cup {row}
                   /\ answered201' = [answered201 EXCEPT ![row.email] = @ + 1]
                   /\ Respond(c, Response("signup", body, 201, "",
                          jwtSign(row.id, row.email, JWT_SECRET, now),
                          PublicUser(row), TRUE, TRUE))
        /\ UNCHANGED <<now, dashVars, tabsVars>>

\* POST /login on connection c, from its first line to its response; no
\* other request changes the row it has read
login(c, body) ==
    IF ~Truthy(body.email) \/ ~Truthy(body.password)
    THEN Response("login", body, 400, "Email and password are required.",
                  NoToken, NoUser, FALSE, FALSE)
    ELSE IF ~\E r \in users : r.email = body.email.v
    THEN Response("login", body, 400, "Invalid email or password.",
                  NoToken, NoUser, TRUE, FALSE)
    ELSE LET user == CHOOSE r \in users : r.email = body.email.v IN
         IF body.password.t # "string"
         THEN Response("login", body, 500,
                       "Server error during login: "
                           \o IllegalArguments(body.password),
                       NoToken, NoUser, TRUE, FALSE)
         ELSE IF ~bcryptCompare(body.password.v, user.password_hash)
         THEN Response("login", body, 400, "Invalid email or password.",
                       NoToken, NoUser, TRUE, FALSE)
         ELSE Response("login", body, 200, "",
                       jwtSign(user.id, user.email, JWT_SECRET, now),
                       PublicUser(user), TRUE, FALSE)

Login ==
    \E c \in Conns, body \in LoginBodies :
        /\ requests[c] = Idle
        /\ Respond(c, login(c, body))
        /\ UNCHANGED <<users, usersIdSeq, answered201, now, dashVars, tabsVars>>

\* Authorization headers, as authHeader.split(' '); <<>> is no header
Tampered(token) == [token EXCEPT !.id = @ + 1]

MeHeaders ==
    {<<>>, <<"Bearer">>, <<"Basic", Garbage>>, <<"Bearer", Garbage>>}
        \cup (IF clientToken = NoToken THEN {}
              ELSE {<<"Bearer", clientToken>>,
                    <<"Bearer", Tampered(clientToken)>>,
                    <<"Bearer", jwtSign(clientToken.id, clientToken.email,
                                        "guess", clientToken.iat)>>})

\* authHeader && authHeader.split(' ')[1]
BearerPart(header) == IF Len(header) >= 2 THEN header[2] ELSE NoToken

\* GET /me: authenticateToken, then the route handler
me(c, header) ==
    LET token == BearerPart(header) IN
    IF token = NoToken
    THEN Response("me", header, 401, "Access denied. No token provided.",
                  NoToken, NoUser, FALSE, FALSE)
    ELSE IF ~jwtVerify(token, JWT_SECRET, now)
    THEN Response("me", header, 403, "Invalid token.",
                  NoToken, NoUser, FALSE, FALSE)
    ELSE IF ~\E r \in users : r.id = token.id
    THEN Response("me", header, 404, "User not found.",
                  NoToken, NoUser, TRUE, FALSE)
    ELSE Response("me", header, 200, "", NoToken,
                  PublicUser(CHOOSE r \in users : r.id = token.id),
                  TRUE, FALSE)

Me ==
    \E c \in Conns, header \in MeHeaders :
        /\ requests[c] = Idle
        /\ Respond(c, me(c, header))
        /\ UNCHANGED <<users, usersIdSeq, answered201, now, dashVars, tabsVars>>

Tick ==
    /\ now + ClockStep <= MaxClock
    /\ now' = now + ClockStep
    /\ UNCHANGED <<users, usersIdSeq, requests, lastResponse, answered201,
                   clientToken, dashVars, tabsVars>>

\* no request has been answered yet
NoResponse ==
    [route |-> "none", req |-> <<>>, status |-> 0, message |-> "",
     token |-> NoToken, user |-> NoUser, queried |-> FALSE,
     inserted |-> FALSE, at |-> 0]

AuthInit ==
    /\ users = {}
    /\ usersIdSeq = 1
    /\ requests = [c \in Conns |-> Idle]
    /\ lastResponse = NoResponse
    /\ answered201 = [e \in Emails |-> 0]
    /\ clientToken = NoToken
    /\ now = 0

InitAuth ==
    /\ DashInit
    /\ TabsIdle
    /\ AuthInit

NextAuth ==
    \/ SignupArrives
    \/ SignupSelects
    \/ SignupHashes
    \/ SignupInserts
    \/ Login
    \/ Me
    \/ Tick

SpecAuth == InitAuth /\ [][NextAuth]_vars

(***************************************************************************)
(* C7: under any interleaving of signup requests, the users table never    *)
(* holds two rows with the same email, and at most one signup request per  *)
(* email is answered 201 with a token.                                     *)
(***************************************************************************)
C7_EmailUnique ==
    /\ \A r1 \in users, r2 \in users : r1.email = r2.email => r1 = r2
    /\ \A e \in Emails : answered201[e] <= 1

\* two signups with one email raced past the SELECT; the second INSERT was
\* refused by the UNIQUE index after the first was answered 201
C7_Witness ==
    /\ lastResponse.route = "signup"
    /\ lastResponse.status = 500
    /\ lastResponse.req.password.t = "string"
    /\ answered201[lastResponse.req.email.v] = 1
    /\ Cardinality({r \in users : r.email = lastResponse.req.email.v}) = 1

(***************************************************************************)
(* C8: every signup request that creates no user because its email is      *)
(* already taken, also when two signups with the same email run            *)
(* concurrently, is answered 400 'Email already registered.', inserts no   *)
(* row and issues no token.                                                *)
(***************************************************************************)
C8_DuplicateAnswered400 ==
    LET r == lastResponse IN
    ( /\ r.route = "signup"
      /\ Truthy(r.req.username) /\ Truthy(r.req.email)
      /\ Truthy(r.req.full_name)
      /\ r.req.password.t = "string" /\ r.req.password.v # ""
      /\ ~r.inserted
      /\ \E row \in users : row.email = r.req.email.v )
    => /\ r.status = 400
       /\ r.message = "Email already registered."
       /\ r.token = NoToken

(***************************************************************************)
(* C9: the login response carries a token if and only if a user row with   *)
(* the given email exists and the given password matches its stored hash;  *)
(* in every other case with both fields present the response is            *)
(* 400 'Invalid email or password.' with no token.                         *)
(***************************************************************************)
C9_LoginTokenIffMatch ==
    LET r == lastResponse
        match == \E row \in users :
                    /\ row.email = r.req.email.v
                    /\ r.req.password.t = "string"
                    /\ r.req.password.v = row.password_hash[3]
    IN r.route = "login" =>
          /\ (r.token # NoToken) <=> match
          /\ (Truthy(r.req.email) /\ Truthy(r.req.password) /\ ~match)
                => /\ r.status = 400
                   /\ r.message = "Invalid email or password."
                   /\ r.token = NoToken

(***************************************************************************)
(* C10: GET /me answers 401 when the Authorization header carries no       *)
(* token (no header, or no second word) and 403 when the token it carries  *)
(* is malformed, wrongly signed or expired; in both cases no database      *)
(* query runs and no user data is returned.                                *)
(***************************************************************************)
C10_MeRejects ==
    LET r == lastResponse
        supplied == Len(r.req) >= 2
        tok == r.req[2]
        verifies ==
            /\ tok.kind = "jwt"
            /\ tok.sig = Hmac(JWT_SECRET, tok.id, tok.email, tok.iat, tok.exp)
            /\ r.at < tok.exp
    IN r.route = "me" =>
          /\ ~supplied => /\ r.status = 401
                          /\ ~r.queried
                          /\ r.user = NoUser
          /\ (supplied /\ ~verifies) => /\ r.status = 403
                                        /\ ~r.queried
                                        /\ r.user = NoUser

\* a token this server signed is presented after its 24 hours and refused
C10_Witness ==
    /\ lastResponse.route = "me"
    /\ lastResponse.status = 403
    /\ Len(lastResponse.req) >= 2
    /\ lastResponse.req[2].kind = "jwt"
    /\ lastResponse.req[2].sig =
           Hmac(JWT_SECRET, lastResponse.req[2].id, lastResponse.req[2].email,
                lastResponse.req[2].iat, lastResponse.req[2].exp)
    /\ lastResponse.at >= lastResponse.req[2].exp
    /\ \E row \in users : row.id = lastResponse.req[2].id

(***************************************************************************)
(* C11: the token returned by a signup or by a successful login carries    *)
(* the id and email of the user row it was issued for, and presenting a    *)
(* token to GET /me returns exactly the id, username, email and full_name  *)
(* of the row the token names, never another user's.                       *)
(***************************************************************************)
C11_TokenRoundTrip ==
    LET r == lastResponse IN
    /\ (r.route \in {"signup", "login"} /\ r.token # NoToken) =>
          \E row \in users :
              /\ row.email = r.req.email.v
              /\ r.token.id = row.id
              /\ r.token.email = row.email
              /\ r.user.id = row.id
              /\ r.user.email = row.email
    /\ (r.route = "me" /\ r.status = 200) =>
          \E row \in users :
              /\ r.req[2].id = row.id
              /\ r.req[2].email = row.email
              /\ r.user = [id |-> row.id, username |-> row.username,
                           email |-> row.email, full_name |-> row.full_name]

\* with two users registered, the second user's token fetches a profile
C11_Witness ==
    /\ lastResponse.route = "me"
    /\ lastResponse.status = 200
    /\ Cardinality(users) = 2
    /\ lastResponse.req[2].id = 2
    /\ lastResponse.user.id = 2

(***************************************************************************)
(* C12: toggleCamera and toggleMic only flip the enabled flag of the video *)
(* (respectively audio) track of the current stream: no track is stopped,  *)
(* no stream is requested or replaced, the other track's flag, phase,      *)
(* isSecured and the violation counter stay as they are, and with no       *)
(* stream held the call changes nothing.                                   *)
(***************************************************************************)
C12_TogglesOnlyFlipEnabled ==
    [][LET others == <<phase, isSecured, violations, showWarning,
                       streamRef, screenStreamRef, camLive, scrLive,
                       gumPending, gdmPending, hasRequestedRef, reloadCause,
                       fullscreen>>
       IN /\ ClickCamera =>
                /\ videoEnabled' = ~videoEnabled
                /\ isCameraOn' = videoEnabled'
                /\ UNCHANGED <<audioEnabled, isMicOn, others>>
          /\ ClickMic =>
                /\ audioEnabled' = ~audioEnabled
                /\ isMicOn' = audioEnabled'
                /\ UNCHANGED <<videoEnabled, isCameraOn, others>>
          /\ toggleCamera([Cur EXCEPT !.streamRef = Null])
                = [Cur EXCEPT !.streamRef = Null]
          /\ toggleMic([Cur EXCEPT !.streamRef = Null])
                = [Cur EXCEPT !.streamRef = Null]]_vars

\* the camera has been switched off while the microphone stays on
C12_Witness ==
    /\ Loaded
    /\ phase = "live"
    /\ streamRef # Null
    /\ streamRef \in camLive
    /\ ~videoEnabled
    /\ ~isCameraOn
    /\ audioEnabled
    /\ isMicOn

C14_UnmountStopsTracks == Unmounted => camLive = {} /\ scrLive = {}

AttemptMade == enterFullscreenCalled \/ reloadCause # "none"

MissingOrEmpty(x) == x.t = "undefined" \/ (x.t = "string" /\ x.v = "")

C17_ValidationRejects ==
    LET r == lastResponse IN
    /\ ( /\ r.route = "signup"
         /\ \/ MissingOrEmpty(r.req.username)
            \/ MissingOrEmpty(r.req.email)
            \/ MissingOrEmpty(r.req.password)
            \/ MissingOrEmpty(r.req.full_name) )
       => /\ r.status = 400
          /\ r.message = "All fields are required."
          /\ ~r.queried
          /\ ~r.inserted
          /\ r.token = NoToken
          /\ \A row \in users : row.full_name # "" /\ row.email # ""
    /\ ( /\ r.route = "login"
         /\ \/ MissingOrEmpty(r.req.email)
            \/ MissingOrEmpty(r.req.password) )
       => /\ r.status = 400
          /\ r.message = "Email and password are required."
          /\ ~r.queried
          /\ ~r.inserted
          /\ r.token = NoToken

\* a signup whose only flaw is an empty full_name was refused
C17_Witness ==
    /\ lastResponse.route = "signup"
    /\ lastResponse.status = 400
    /\ lastResponse.req.full_name = Str("")
    /\ lastResponse.req.username = Str("ann")
    /\ lastResponse.req.email.v \in Emails
    /\ lastResponse.req.password = Str("pw1")
    /\ users = {}

(***************************************************************************)
(* C18: every 'session_exists' message that puts a live tab into phase     *)
(* 'error' was sent by a tab that was itself in phase 'live' when it sent  *)
(* it.                                                                     *)
(***************************************************************************)
C18_BlockedOnlyByLiveTab ==
    [][\A t \in Tabs :
          ( /\ tabInbox[t] # <<>>
            /\ tabPhase[t] = "live"
            /\ Head(tabInbox[t]).data = "session_exists"
            /\ TabReceivesAt(t)
            /\ tabPhase'[t] = "error"
            /\ tabHeader'[t] = "Security Violation" )
          => Head(tabInbox[t]).phase = "live"]_vars

(***************************************************************************)
(* C19: only newcomers are blocked: a tab in phase 'live' is put into      *)
(* phase 'error' by a 'session_exists' message only when that message      *)
(* answers the tab's own announcement, never by what other tabs open,      *)
(* retry or exchange among themselves, for any number of other tabs.       *)
(***************************************************************************)
C19_OnlyNewcomersBlocked ==
    [][\A t \in Tabs :
          ( /\ tabInbox[t] # <<>>
            /\ tabPhase[t] = "live"
            /\ Head(tabInbox[t]).data = "session_exists"
            /\ TabReceivesAt(t)
            /\ tabPhase'[t] = "error"
            /\ tabHeader'[t] = "Security Violation" )
          => Head(tabInbox[t]).replyTo = t]_vars

(***************************************************************************)
(* C20: if a tab reaches phase 'live' while another tab with the dashboard *)
(* mounted stays open, and queued messages are eventually dispatched, the  *)
(* newly live tab eventually moves to phase 'error' with header            *)
(* 'Security Violation'.                                                   *)
(***************************************************************************)
\* tab t has just become live while tab u was open: the announcement t
\* posted on becoming live is queued for u
AnnouncedLive(t, u) ==
    /\ tabPhase[t] = "live"
    /\ \E i \in 1..Len(tabInbox[u]) :
          /\ tabInbox[u][i].data = "new_tab_attempt"
          /\ tabInbox[u][i].from = t
          /\ tabInbox[u][i].phase = "live"

Blocked(t) == tabPhase[t] = "error" /\ tabHeader[t] = "Security Violation"

C21_ExemptWhileSharing ==
    [][( /\ isScreenSharing \/ gdmPending > 0
         /\ \/ WindowBlur
            \/ VisibilityChangeTo("hidden")
            \/ FullscreenExit )
       => /\ violations' = violations
          /\ showWarning' => showWarning]_vars

(***************************************************************************)
(* C22: isRequestingScreenRef is true exactly while a getDisplayMedia      *)
(* request is pending.                                                     *)
(***************************************************************************)
C22_RequestingIffPending ==
    Loaded => (isRequestingScreenRef <=> gdmPending > 0)

(***************************************************************************)
(* C23: when handleScreenShareEnd has run (share button while sharing, or  *)
(* the track's onended), no screen-capture stream of the page is left      *)
(* un-stopped, screenStreamRef is null, and isScreenSharingRef and         *)
(* isScreenSharing are false.                                              *)
(***************************************************************************)
C23_ShareEndStopsEverything ==
    [][( \/ ClickShare /\ isScreenSharing
         \/ ScreenTrackEnded )
       => /\ scrLive' = {}
          /\ screenStreamRef' = Null
          /\ ~isScreenSharingRef'
          /\ ~isScreenSharing']_vars

(***************************************************************************)
(* C24: at most one getUserMedia request is outstanding at any time.       *)
(***************************************************************************)
C24_OneMediaRequest == Loaded => gumPending <= 1

(***************************************************************************)
(* C25: whenever phase is 'live' and a camera/microphone stream is held,   *)
(* isCameraOn equals the enabled flag of the stream's video track and      *)
(* isMicOn equals the enabled flag of its audio track.                     *)
(***************************************************************************)
C25_IndicatorsMatchTracks ==
    (Loaded /\ phase = "live" /\ streamRef # Null)
        => (isCameraOn = videoEnabled /\ isMicOn = audioEnabled)

(***************************************************************************)
(* C26: while isSecured is false the violation counter is 0 and no warning *)
(* is shown, and no blur, visibilitychange, fullscreen exit, touchstart or *)
(* keydown changes either of them.                                         *)
(***************************************************************************)
C26_NothingCountedBeforeSecured ==
    /\ []((Loaded /\ ~isSecured) => (violations = 0 /\ ~showWarning))
    /\ [][( /\ ~isSecured
            /\ \/ WindowBlur
               \/ VisibilityChange
               \/ FullscreenExit
               \/ TouchStart
               \/ KeyDown )
          => /\ violations' = violations
             /\ showWarning' = showWarning]_vars

\* a live, unsecured page on which F12 has been pressed to no effect
C26_Witness ==
    /\ Loaded
    /\ ~isSecured
    /\ phase = "live"
    /\ handleKeyDown(Cur, "f12", FALSE, FALSE, TRUE, TRUE).violations = 0

(***************************************************************************)
(* C27: an enterFullscreen whose requestFullscreen rejects sets phase      *)
(* 'error' with header 'Fullscreen Required' and leaves isSecured and      *)
(* showWarning as they were; isSecured becomes true only in a step that    *)
(* called enterFullscreen and ends with the document in fullscreen.        *)
(***************************************************************************)
C27_RejectedFullscreen ==
    /\ []((Loaded /\ ~fullscreen) =>
            LET r == enterFullscreen(Cur, FALSE) IN
            /\ r.phase = "error"
            /\ r.errorHeader = "Fullscreen Required"
            /\ r.isSecured = isSecured
            /\ r.showWarning = showWarning)
    /\ [][(~isSecured /\ isSecured')
          => (enterFullscreenCalled' /\ fullscreen')]_vars

\* the start overlay's request has been rejected
C27_Witness ==
    /\ Loaded
    /\ enterFullscreenCalled
    /\ phase = "error"
    /\ errorHeader = "Fullscreen Required"
    /\ ~isSecured
    /\ ~fullscreen

(***************************************************************************)
(* C28: within one page load the violation counter never decreases, and    *)
(* entering fullscreen, dismissing an overlay, starting or stopping screen *)
(* share, and error/retry cycles leave it unchanged.                       *)
(***************************************************************************)
C28_CounterNeverReset ==
    /\ [][reloadCause = "none" => violations' >= violations]_vars
    /\ [][( \/ ClickAgree
            \/ ClickRefocus
            \/ ClickContinue
            \/ ClickShare
            \/ ScreenTrackEnded
            \/ GetDisplayMediaResolves
            \/ GetDisplayMediaRejects
            \/ ShareTimerFires
            \/ ReentryTimerFires
            \/ SessionExistsMessage
            \/ ClickRetry
            \/ GetUserMediaResolves
            \/ GetUserMediaRejects )
          => violations' = violations]_vars

\* a retry is under way in a session that has a violation on record
C28_Witness ==
    /\ Loaded
    /\ violations >= 1
    /\ phase = "loading"
    /\ gumPending > 0

(***************************************************************************)
(* C29: while phase is 'live' and the session is secured, a keydown of 'm' *)
(* toggles the microphone, 'c' the camera, 's' screen sharing and 'Escape' *)
(* starts the end-interview confirmation; when phase is not 'live' or the  *)
(* session is not secured these keys change no state.                      *)
(***************************************************************************)
C29_Shortcuts ==
    Loaded =>
        \A granted \in BOOLEAN, confirmed \in BOOLEAN :
            LET pressed(key) ==
                    handleKeyDown(Cur, key, FALSE, FALSE, granted, confirmed)
            IN IF phase = "live" /\ isSecured
               THEN /\ pressed("m") = toggleMic(Cur)
                    /\ pressed("c") = toggleCamera(Cur)
                    /\ pressed("s") =
                           toggleScreenShare(Cur, isScreenSharing, granted)
                    /\ pressed("escape") = handleEndInterview(Cur, confirmed)
               ELSE \A key \in {"m", "c", "s", "escape"} : pressed(key) = Cur

(***************************************************************************)
(* C30: a keydown of a blocked combination with Ctrl or Meta held toggles  *)
(* neither screen sharing nor camera nor microphone: it is at most counted *)
(* as a violation.                                                         *)
(***************************************************************************)
C30_BlockedHotkeyIsNoShortcut ==
    Loaded =>
        \A key \in Keys, shiftKey \in BOOLEAN, granted \in BOOLEAN :
            isBlockedHotkey(key, TRUE, shiftKey) =>
                handleKeyDown(Cur, key, TRUE, shiftKey, granted, TRUE)
                    \in {Cur, handleViolation(Cur, TRUE)}

(***************************************************************************)
(* C31: in phase 'error' a click on 'Go Back & Retry' always issues a new  *)
(* getUserMedia request and moves phase to 'loading'; when a request       *)
(* resolves, phase becomes 'live'.                                         *)
(***************************************************************************)
C31_RetryAlwaysPossible ==
    /\ []((Loaded /\ phase = "error") =>
            LET r == startInterview([Cur EXCEPT !.hasRequestedRef = FALSE]) IN
            /\ r.gumPending = gumPending + 1
            /\ r.phase = "loading")
    /\ [][ClickRetry => (gumPending' = gumPending + 1 /\ phase' = "loading")]_vars
    /\ [][GetUserMediaResolves => phase' = "live"]_vars

\* the request of a retry has resolved: the page is live on a second stream
C31_Witness ==
    /\ Loaded
    /\ phase = "live"
    /\ streamRef = 2
    /\ gumPending = 0

(***************************************************************************)
(* C32: for any two login requests with both fields present, one with an   *)
(* unregistered email and one with a registered email and a wrong          *)
(* password, the responses have the same status, 400, and the same body,   *)
(* 'Invalid email or password.'.                                           *)
(***************************************************************************)
Registered(body) == \E row \in users : row.email = body.email.v

WrongPassword(body) ==
    ~\E row \in users :
        /\ row.email = body.email.v
        /\ body.password.t = "string"
        /\ bcryptCompare(body.password.v, row.password_hash)

C32_LoginFailuresIndistinguishable ==
    \A b1 \in LoginBodies, b2 \in LoginBodies :
        ( /\ Truthy(b1.email) /\ Truthy(b1.password)
          /\ Truthy(b2.email) /\ Truthy(b2.password)
          /\ ~Registered(b1)
          /\ Registered(b2) /\ WrongPassword(b2) )
        => LET r1 == login(1, b1)
               r2 == login(1, b2)
           IN /\ r1.status = 400
              /\ r2.status = 400
              /\ r1.message = "Invalid email or password."
              /\ r2.message = r1.message

====
